---- MODULE Spec2Model ----
(***************************************************************************)
(* Model of gopher.py: a threaded Gopher server that answers one selector  *)
(* per TCP connection from an in-memory page map.                          *)
(*                                                                         *)
(* Text (Python str) is a TLA+ string; SubSeq, Len and \o work on it       *)
(* character by character.  Socket data (Python bytes) is a TLA+ string    *)
(* too: an ASCII byte is its character, the character B_FF stands for the  *)
(* byte 0xFF (never valid in UTF-8) and the character B_FFFD for the three *)
(* bytes EF BF BD, the UTF-8 form of U+FFFD, which the model only has      *)
(* together.  In text, REPLACEMENT stands for U+FFFD.  None of the three   *)
(* characters occurs in a page or in an ASCII request of the model.        *)
(***************************************************************************)
EXTENDS Integers, Sequences, FiniteSets, TLC

VARIABLES
    pages,           \* the module-level dict PAGES
    server_address,  \* (host, port) the listening socket is bound to
    serving,         \* TRUE while serve_forever() runs its accept loop
    pc,              \* per connection: position of the connection/handler
    arrived,         \* per connection: the client's request is in the socket
    inbuf,           \* per connection: bytes the client wrote
    data,            \* per connection: handle()'s local `data`
    body,            \* per connection: handle()'s local `body`
    out,             \* per connection: bytes the peer received
    err,             \* per connection: which call of the handler raised
    link             \* per connection: menu line the client followed, or NoLink

vars == <<pages, server_address, serving, pc, arrived, inbuf, data, body, out, err, link>>

---------------------------------------------------------------------------
(* Bounds of the model.                                                    *)

MaxConns == 2        \* connections of the concurrent specification
MaxChunks == 2       \* request = at most this many chunks of RequestChunks

Conns == 1..MaxConns

---------------------------------------------------------------------------
(* Program constants.                                                      *)

CRLF == "\r\n"
TAB == "\t"
BUFSIZE == 1024
REPLACEMENT == "~"   \* U+FFFD, the character errors="replace" inserts
B_FFFD == "$"
B_FF == "#"

---------------------------------------------------------------------------
(* Text helpers: Python str methods used by the program.                   *)

Char(s, i) == SubSeq(s, i, i)

\* s.startswith(p, at i): p occurs in s at position i
OccursAt(s, p, i) == i >= 1 /\ i + Len(p) - 1 <= Len(s) /\ SubSeq(s, i, i + Len(p) - 1) = p

\* str.endswith
endswith(s, suffix) == Len(s) >= Len(suffix) /\ SubSeq(s, Len(s) - Len(suffix) + 1, Len(s)) = suffix

\* `sub in s`
Contains(s, sub) == \E i \in 1..(Len(s) - Len(sub) + 1) : OccursAt(s, sub, i)

\* F(v), with v computed once however often F uses it
Let(v, F(_)) == CHOOSE r \in {F(x) : x \in {v}} : TRUE

\* the positions 1..n that pass Test, in increasing order
Positions(n, Test(_)) == SelectSeq([i \in 1..n |-> i], Test)

\* parts[1] \o ... \o parts[n]
RECURSIVE Concat(_, _)
Concat(parts, n) == IF n = 0 THEN "" ELSE Concat(parts, n - 1) \o parts[n]

\* str.join
join(sep, parts) ==
    Let(parts, LAMBDA ps : Concat([i \in 1..Len(ps) |-> IF i = 1 THEN ps[i] ELSE sep \o ps[i]], Len(ps)))

\* str(int) for a non-negative int
DIGITS == "0123456789"
RECURSIVE str(_)
str(n) == IF n < 10 THEN Char(DIGITS, n + 1) ELSE str(n \div 10) \o Char(DIGITS, (n % 10) + 1)

\* characters str.strip() removes (those of them the byte alphabet can form)
Whitespace == {" ", "\t", "\n", "\r", "\f"}

\* str.strip(): from the first to the last character that is not whitespace
strip(s) ==
    Let({i \in 1..Len(s) : Char(s, i) \notin Whitespace},
        LAMBDA keep : IF keep = {} THEN ""
                      ELSE SubSeq(s, CHOOSE i \in keep : \A k \in keep : i <= k,
                                     CHOOSE i \in keep : \A k \in keep : i >= k))

\* str.split(sep), for a separator that cannot overlap itself
split(s, sep) ==
    Let(Positions(Len(s), LAMBDA j : OccursAt(s, sep, j)),
        LAMBDA hits : [n \in 1..(Len(hits) + 1) |->
                          SubSeq(s, IF n = 1 THEN 1 ELSE hits[n - 1] + Len(sep),
                                    IF n = Len(hits) + 1 THEN Len(s) ELSE hits[n] - 1)])

---------------------------------------------------------------------------
(* bytes.decode("utf-8", errors="replace") and str.encode("utf-8") on the  *)
(* byte alphabet: ASCII bytes, 0xFF, and the byte triple of U+FFFD.        *)

\* one byte, or the triple, decoded: ASCII maps to itself, EF BF BD is
\* U+FFFD, and 0xFF is an invalid sequence, replaced by U+FFFD
DecodeByte(b) == IF b \in {B_FF, B_FFFD} THEN REPLACEMENT ELSE b

decode(bs) == Concat([i \in 1..Len(bs) |-> DecodeByte(Char(bs, i))], Len(bs))

\* every ASCII character is its own byte, U+FFFD is EF BF BD
encode(s) == join(B_FFFD, split(s, REPLACEMENT))

---------------------------------------------------------------------------
(* The content store.                                                      *)

MenuItem(item_type, display, selector) ==
    [item_type |-> item_type, display |-> display, selector |-> selector]

text_page(lines) == join(CRLF, lines) \o CRLF

MenuLine(item, host_placeholder, port_placeholder) ==
    item.item_type \o item.display \o TAB \o item.selector \o TAB \o host_placeholder \o TAB \o port_placeholder

menu_page(items) ==
    join(CRLF, [i \in 1..Len(items) |-> MenuLine(items[i], "{host}", "{port}")]) \o CRLF

PAGES ==
       "" :> menu_page(<<
           MenuItem("i", "Welcome to the Mellea Gopher Capsule", "fake"),
           MenuItem("i", "A compact learning path for model-centered development.", "fake"),
           MenuItem("1", "Start with the tutorial", "/tutorial"),
           MenuItem("1", "Rewrite guide: overview", "/rewrite"),
           MenuItem("1", "Rewrite guide: strategy", "/rewrite/strategy"),
           MenuItem("1", "Rewrite guide: iterative workflow", "/rewrite/iteration"),
           MenuItem("1", "Rewrite guide: evaluation", "/rewrite/evaluation"),
           MenuItem("0", "About this capsule", "/about")
       >>)
    @@ "/about" :> text_page(<<
           "Mellea Gopher Capsule",
           "",
           "This capsule is inspired by Mellea tutorial and rewrite docs.",
           "It focuses on practical habits for building with language models:",
           "- design with explicit intent",
           "- keep context and prompts structured",
           "- iterate with measurable quality checks",
           "",
           "Navigate back to selector / for the main menu."
       >>)
    @@ "/tutorial" :> menu_page(<<
           MenuItem("i", "Tutorial Path", "fake"),
           MenuItem("0", "1) Define the outcome and user experience", "/tutorial/outcome"),
           MenuItem("0", "2) Model the task as constrained generation", "/tutorial/constrained-generation"),
           MenuItem("0", "3) Add tools and retrieval where certainty matters", "/tutorial/tooling"),
           MenuItem("0", "4) Close the loop with evaluation and revision", "/tutorial/evaluation-loop"),
           MenuItem("1", "Return to home", "/")
       >>)
    @@ "/tutorial/outcome" :> text_page(<<
           "Tutorial Step 1: Define the outcome",
           "",
           "Begin with a concrete artifact and a quality bar.",
           "Examples: a migration plan, a product brief, or a code patch.",
           "",
           "State what the user needs in explicit terms:",
           "- audience and constraints",
           "- acceptable format",
           "- what 'done' means",
           "",
           "Good prompts start with sharp intent, not verbose prose."
       >>)
    @@ "/tutorial/constrained-generation" :> text_page(<<
           "Tutorial Step 2: Constrained generation",
           "",
           "Treat prompting as interface design.",
           "Give the model a frame that narrows ambiguity:",
           "- role and scope",
           "- required structure and fields",
           "- boundaries (what to avoid)",
           "",
           "Use small, testable output contracts to keep results stable."
       >>)
    @@ "/tutorial/tooling" :> text_page(<<
           "Tutorial Step 3: Tools and retrieval",
           "",
           "Use models for synthesis, tools for facts.",
           "When precision matters, provide grounded context from:",
           "- local code and docs",
           "- APIs or databases",
           "- deterministic scripts",
           "",
           "This split reduces hallucinations and improves reproducibility."
       >>)
    @@ "/tutorial/evaluation-loop" :> text_page(<<
           "Tutorial Step 4: Evaluation loop",
           "",
           "Every generation should be followed by an explicit check:",
           "- does it satisfy required structure?",
           "- does it pass tests or policy checks?",
           "- does it remain understandable to humans?",
           "",
           "Use failures as signals to improve prompts, data, or tooling."
       >>)
    @@ "/rewrite" :> menu_page(<<
           MenuItem("i", "Rewrite Guide", "fake"),
           MenuItem("0", "Overview: what rewriting is for", "/rewrite/overview"),
           MenuItem("0", "Strategy: preserve intent, improve expression", "/rewrite/strategy"),
           MenuItem("0", "Iteration: draft, critique, refine", "/rewrite/iteration"),
           MenuItem("0", "Evaluation: style, meaning, and risk checks", "/rewrite/evaluation"),
           MenuItem("1", "Return to home", "/")
       >>)
    @@ "/rewrite/overview" :> text_page(<<
           "Rewrite Overview",
           "",
           "Rewriting is a controlled transformation.",
           "The goal is not novelty; the goal is clarity, fit, and fidelity.",
           "",
           "A useful rewrite process separates:",
           "- intent (must keep)",
           "- tone/format (may adapt)",
           "- constraints (must obey)"
       >>)
    @@ "/rewrite/strategy" :> text_page(<<
           "Rewrite Strategy",
           "",
           "Before editing text, extract a rewrite brief:",
           "- source purpose",
           "- target audience",
           "- hard constraints",
           "- preferred voice",
           "",
           "Then rewrite with traceability:",
           "- preserve key claims",
           "- compress redundancy",
           "- improve structure and flow",
           "",
           "If constraints conflict, ask for prioritization."
       >>)
    @@ "/rewrite/iteration" :> text_page(<<
           "Rewrite Iteration",
           "",
           "Use short cycles:",
           "1. Produce a focused draft.",
           "2. Critique against explicit criteria.",
           "3. Apply only justified revisions.",
           "",
           "Iteration beats one-shot perfection for complex writing tasks."
       >>)
    @@ "/rewrite/evaluation" :> text_page(<<
           "Rewrite Evaluation",
           "",
           "Evaluate rewrites on three axes:",
           "- Fidelity: did core meaning stay intact?",
           "- Readability: is it easier to parse and act on?",
           "- Compliance: does it meet style and policy requirements?",
           "",
           "Prefer lightweight rubrics with pass/fail thresholds."
       >>)

---------------------------------------------------------------------------
(* GopherRequestHandler.handle, the computation between recv and sendall.  *)

\* variant: no root normalisation, "/" is looked up as it is
NormalizeNone(selector) == selector

\* selector in ("", "/") -> ""
Normalize(selector) == IF selector \in {"", "/"} THEN "" ELSE selector

\* f"Requested selector: {selector or '/'}" inside the 404 text_page
NotFoundPage(selector) ==
    text_page(<<
        "404 - selector not found",
        "",
        "Requested selector: " \o (IF selector = "" THEN "/" ELSE selector),
        "Return to '/' for the main menu."
    >>)

\* the keys of PAGES built with menu_page
MenuSelectors == {"", "/tutorial", "/rewrite"}

\* PAGES.get(selector), with the fallback of the `if payload is None` branch
Lookup(store, selector) ==
    IF selector \in DOMAIN store THEN store[selector] ELSE NotFoundPage(selector)

\* the positions of the braces of s, in increasing order
BracePositions(s) == Positions(Len(s), LAMBDA j : Char(s, j) \in {"{", "}"})

Raised == [raised |-> TRUE, text |-> ""]

\* variant: only the host placeholder is substituted
FieldValueHostOnly(field, host, port) ==
    IF field = "host" THEN [raised |-> FALSE, text |-> host]
    ELSE IF field = "port" THEN [raised |-> FALSE, text |-> "{port}"]
    ELSE Raised

\* the value str.format(host=host, port=port) finds for a replacement field;
\* any other field name raises KeyError or IndexError
FieldValue(field, host, port) ==
    IF field = "host" THEN [raised |-> FALSE, text |-> host]
    ELSE IF field = "port" THEN [raised |-> FALSE, text |-> str(port)]
    ELSE Raised

\* payload.format(host=host, port=port), read from the n-th brace on, with
\* the text before it from position start still to copy and acc the output
\* so far: "{{" and "}}" are escapes, "{name}" is a replacement field, a
\* single "}" or an unclosed or nested "{" raises ValueError
RECURSIVE FormatFrom(_, _, _, _, _, _, _)
FormatFrom(s, braces, n, start, acc, host, port) ==
    IF n > Len(braces) THEN [raised |-> FALSE, text |-> acc \o SubSeq(s, start, Len(s))]
    ELSE LET j == braces[n]
             lit == SubSeq(s, start, j - 1)
         IN  IF OccursAt(s, "}}", j) THEN FormatFrom(s, braces, n + 2, j + 2, acc \o lit \o "}", host, port)
             ELSE IF Char(s, j) = "}" THEN Raised
             ELSE IF OccursAt(s, "{{", j) THEN FormatFrom(s, braces, n + 2, j + 2, acc \o lit \o "{", host, port)
             ELSE IF n + 1 > Len(braces) \/ Char(s, braces[n + 1]) = "{" THEN Raised
             ELSE LET k == braces[n + 1]
                      v == FieldValue(SubSeq(s, j + 1, k - 1), host, port)
                  IN  IF v.raised THEN Raised
                      ELSE FormatFrom(s, braces, n + 2, k + 1, acc \o lit \o v.text, host, port)

format(s, host, port) ==
    Let(BracePositions(s), LAMBDA braces : FormatFrom(s, braces, 1, 1, "", host, port))

\* if not body.endswith(f".{CRLF}"): body = f"{body}.{CRLF}"
Terminate(text) == IF ~endswith(text, "." \o CRLF) THEN text \o "." \o CRLF ELSE text

\* the selector handle() looks up for the received bytes
SelectorOf(bytes) ==
    Let(decode(bytes), LAMBDA text :
    Let(strip(text), LAMBDA selector : Normalize(selector)))

\* lines 177-194: the body handle() passes to sendall, or the exception
HandleBody(store, bytes, address) ==
    Let(SelectorOf(bytes), LAMBDA selector :
    Let(Lookup(store, selector), LAMBDA payload :
    Let(format(payload, address[1], address[2]), LAMBDA r :
        IF r.raised THEN Raised ELSE [raised |-> FALSE, text |-> Terminate(r.text)])))

\* self.request.recv(1024): at most BUFSIZE of the bytes in the socket
recv(bytes) == SubSeq(bytes, 1, IF Len(bytes) < BUFSIZE THEN Len(bytes) ELSE BUFSIZE)

---------------------------------------------------------------------------
(* What a Gopher client reads out of a menu response.                      *)

\* the lines of a response body, the empty piece after the last CRLF dropped
BodyLines(text) ==
    LET parts == split(text, CRLF)
    IN  IF parts[Len(parts)] = "" THEN SubSeq(parts, 1, Len(parts) - 1) ELSE parts

\* a menu line is <type><display> TAB <selector> TAB <host> TAB <port>
IsMenuLine(line) == Len(split(line, TAB)) = 4 /\ Len(split(line, TAB)[1]) >= 1

NoLink == [item_type |-> "", selector |-> ""]

\* the retrievable items (type other than "i") a client sees in a menu body
MenuLinks(text) ==
    LET lines == BodyLines(text)
    IN  {[item_type |-> Char(lines[i], 1), selector |-> split(lines[i], TAB)[2]] :
            i \in {n \in 1..Len(lines) : IsMenuLine(lines[n]) /\ Char(lines[n], 1) # "i"}}

---------------------------------------------------------------------------
(* Inputs.                                                                 *)

Addresses == {<<"127.0.0.1", 7070>>, <<"0.0.0.0", 70>>}

RequestChunks ==
    { "/", "{", "}", "{host}", "{port}", "{x}", ".", CRLF, " ", "x", "/nope", "/about", B_FF }

RECURSIVE ChunkSeqs(_)
ChunkSeqs(n) ==
    IF n = 0 THEN {""}
    ELSE ChunkSeqs(n - 1) \cup {a \o b : a \in ChunkSeqs(n - 1), b \in RequestChunks}

\* every key of the store and "/", as a client sends them
KnownRequests == {k \o CRLF : k \in DOMAIN PAGES \cup {"/"}}

Requests == KnownRequests \cup ChunkSeqs(MaxChunks)

\* requests of the concurrent specification
ConcRequests == {CRLF, "/" \o CRLF, "/nope" \o CRLF, "{x}" \o CRLF}

\* the links of every menu the server serves
Links == UNION {MenuLinks(HandleBody(PAGES, k, <<"127.0.0.1", 7070>>).text) : k \in DOMAIN PAGES}

---------------------------------------------------------------------------
(* The server.                                                             *)

Init ==
    /\ pages = PAGES
    /\ server_address \in Addresses
    /\ serving = TRUE
    /\ pc = [c \in Conns |-> "idle"]
    /\ arrived = [c \in Conns |-> FALSE]
    /\ inbuf = [c \in Conns |-> ""]
    /\ data = [c \in Conns |-> ""]
    /\ body = [c \in Conns |-> ""]
    /\ out = [c \in Conns |-> ""]
    /\ err = [c \in Conns |-> "none"]
    /\ link = [c \in Conns |-> NoLink]

\* a client opens a TCP connection; it waits in the listen queue
Connect(c) ==
    /\ pc[c] = "idle"
    /\ pc' = [pc EXCEPT ![c] = "queued"]
    /\ UNCHANGED <<pages, server_address, serving, arrived, inbuf, data, body, out, err, link>>

\* the client writes its request
ClientSend(c, req) ==
    /\ pc[c] \in {"queued", "accepted"}
    /\ ~arrived[c]
    /\ arrived' = [arrived EXCEPT ![c] = TRUE]
    /\ inbuf' = [inbuf EXCEPT ![c] = req]
    /\ UNCHANGED <<pages, server_address, serving, pc, data, body, out, err, link>>

\* the client requests the selector of a menu line it was served
ClientFollow(c, l) ==
    /\ pc[c] \in {"queued", "accepted"}
    /\ ~arrived[c]
    /\ arrived' = [arrived EXCEPT ![c] = TRUE]
    /\ inbuf' = [inbuf EXCEPT ![c] = l.selector \o CRLF]
    /\ link' = [link EXCEPT ![c] = l]
    /\ UNCHANGED <<pages, server_address, serving, pc, data, body, out, err>>

\* variant: a plain TCPServer, which runs handle() inside the accept loop and
\* accepts nothing while a handler is running
AcceptSerial(c) ==
    /\ serving
    /\ pc[c] = "queued"
    /\ \A d \in Conns : pc[d] \notin {"accepted", "recvd", "sending"}
    /\ pc' = [pc EXCEPT ![c] = "accepted"]
    /\ UNCHANGED <<pages, server_address, serving, arrived, inbuf, data, body, out, err, link>>

\* serve_forever accepts the connection; ThreadingMixIn starts a thread that
\* runs handle() and the accept loop goes on at once
Accept(c) ==
    /\ serving
    /\ pc[c] = "queued"
    /\ pc' = [pc EXCEPT ![c] = "accepted"]
    /\ UNCHANGED <<pages, server_address, serving, arrived, inbuf, data, body, out, err, link>>

\* data = self.request.recv(1024); blocks until the client has written
Recv(c) ==
    /\ pc[c] = "accepted"
    /\ arrived[c]
    /\ data' = [data EXCEPT ![c] = recv(inbuf[c])]
    /\ pc' = [pc EXCEPT ![c] = "recvd"]
    /\ UNCHANGED <<pages, server_address, serving, arrived, inbuf, body, out, err, link>>

\* recv raises (connection reset by peer); the thread ends, the socket closes
RecvFail(c) ==
    /\ pc[c] = "accepted"
    /\ pc' = [pc EXCEPT ![c] = "failed"]
    /\ err' = [err EXCEPT ![c] = "recv"]
    /\ UNCHANGED <<pages, server_address, serving, arrived, inbuf, data, body, out, link>>

\* variant: an exception of handle() escapes into the accept loop
ProcessCrashing(c) ==
    /\ pc[c] = "recvd"
    /\ \E r \in {HandleBody(pages, data[c], server_address)} :
        /\ IF r.raised
           THEN /\ pc' = [pc EXCEPT ![c] = "failed"]
                /\ err' = [err EXCEPT ![c] = "handle"]
                /\ body' = body
                /\ serving' = FALSE
           ELSE /\ pc' = [pc EXCEPT ![c] = "sending"]
                /\ body' = [body EXCEPT ![c] = r.text]
                /\ err' = err
                /\ serving' = serving
    /\ UNCHANGED <<pages, server_address, arrived, inbuf, data, out, link>>

\* variant: the handler stores the body it built back into the page map
ProcessCaching(c) ==
    /\ pc[c] = "recvd"
    /\ \E r \in {HandleBody(pages, data[c], server_address)} :
        /\ IF r.raised
           THEN /\ pc' = [pc EXCEPT ![c] = "failed"]
                /\ err' = [err EXCEPT ![c] = "handle"]
                /\ body' = body
                /\ pages' = pages
           ELSE /\ pc' = [pc EXCEPT ![c] = "sending"]
                /\ body' = [body EXCEPT ![c] = r.text]
                /\ err' = err
                /\ pages' = (SelectorOf(data[c]) :> r.text) @@ pages
    /\ UNCHANGED <<server_address, serving, arrived, inbuf, data, out, link>>

\* lines 177-194: decode, strip, normalise, look up, format, terminate; an
\* exception raised on the way ends this thread only
Process(c) ==
    /\ pc[c] = "recvd"
    /\ \E r \in {HandleBody(pages, data[c], server_address)} :
        /\ IF r.raised
           THEN /\ pc' = [pc EXCEPT ![c] = "failed"]
                /\ err' = [err EXCEPT ![c] = "handle"]
                /\ body' = body
           ELSE /\ pc' = [pc EXCEPT ![c] = "sending"]
                /\ body' = [body EXCEPT ![c] = r.text]
                /\ err' = err
    /\ UNCHANGED <<pages, server_address, serving, arrived, inbuf, data, out, link>>

\* self.request.sendall(body.encode("utf-8")): the peer gets the whole body
Send(c) ==
    /\ pc[c] = "sending"
    /\ out' = [out EXCEPT ![c] = encode(body[c])]
    /\ pc' = [pc EXCEPT ![c] = "sent"]
    /\ UNCHANGED <<pages, server_address, serving, arrived, inbuf, data, body, err, link>>

\* sendall raises (broken pipe) after the peer got nothing or a truncated body
SendFail(c) ==
    /\ pc[c] = "sending"
    /\ \E bytes \in {encode(body[c])} :
          \E n \in {0, Len(bytes) \div 2} : out' = [out EXCEPT ![c] = SubSeq(bytes, 1, n)]
    /\ pc' = [pc EXCEPT ![c] = "failed"]
    /\ err' = [err EXCEPT ![c] = "send"]
    /\ UNCHANGED <<pages, server_address, serving, arrived, inbuf, data, body, link>>

\* one client, any request
Next ==
    \/ Connect(1)
    \/ \E req \in Requests : ClientSend(1, req)
    \/ \E l \in Links : ClientFollow(1, l)
    \/ Accept(1)
    \/ Recv(1)
    \/ RecvFail(1)
    \/ Process(1)
    \/ Send(1)
    \/ SendFail(1)

Spec == Init /\ [][Next]_vars

\* MaxConns clients at once
NextConc ==
    \E c \in Conns :
        \/ Connect(c)
        \/ \E req \in ConcRequests : ClientSend(c, req)
        \/ Accept(c)
        \/ Recv(c)
        \/ RecvFail(c)
        \/ Process(c)
        \/ Send(c)
        \/ SendFail(c)

\* the server of the concurrent specifications is bound to one address
InitConc == Init /\ server_address = <<"127.0.0.1", 7070>>

SpecConc == InitConc /\ [][NextConc]_vars

---------------------------------------------------------------------------
(* Properties.                                                             *)

TerminatorLine == "." \o CRLF

\* a terminator line starts at position i: "." CRLF at the start of a line
TerminatorAt(text, i) ==
    /\ OccursAt(text, TerminatorLine, i)
    /\ (i = 1 \/ OccursAt(text, CRLF, i - 2))

TerminatorPositions(text) == {i \in 1..Len(text) : TerminatorAt(text, i)}

\* the text ends with a terminator line and has no other
EndsWithOneTerminator(text) == TerminatorPositions(text) = {Len(text) - 2}

Unknown(c) == SelectorOf(data[c]) \notin DOMAIN pages

IsNotFoundBody(text) == OccursAt(text, "404 - selector not found", 1)

\* a menu body: its first line is a menu line
IsMenuBody(text) == IsMenuLine(BodyLines(text)[1])

IsPrefix(p, s) == Len(p) <= Len(s) /\ SubSeq(s, 1, Len(p)) = p

\* what the code computes for the request the client of c wrote
OwnResponse(c) == HandleBody(PAGES, recv(inbuf[c]), server_address)

\* everything the model keeps for connection d
ConnState(d) == <<pc[d], arrived[d], inbuf[d], data[d], body[d], out[d], err[d], link[d]>>

\* C1: the body sent for a selector of the content store ends with a
\* terminator line ("." CRLF on a line of its own), which occurs nowhere else.
C1_KnownBodyTerminated ==
    \A c \in Conns :
        (pc[c] = "sent" /\ ~Unknown(c)) => EndsWithOneTerminator(body[c])

\* C2: the body sent for a selector S outside the content store contains
\* "404" and the line "Requested selector: S" with S character for character.
C2_NotFoundEchoesSelector ==
    \A c \in Conns :
        (pc[c] = "sent" /\ Unknown(c)) =>
            /\ Contains(body[c], "404")
            /\ Contains(body[c], CRLF \o "Requested selector: " \o strip(decode(data[c])) \o CRLF)

\* C3: a request whose selector is outside the content store never makes
\* handle() raise: the handler does not end in an exception of its own.
C3_NotFoundNeverRaises ==
    \A c \in Conns :
        Unknown(c) => ~(pc[c] = "failed" /\ err[c] = "handle")

\* C4: the not-found body ends with a terminator line, which occurs nowhere
\* else in it.
C4_NotFoundBodyTerminated ==
    \A c \in Conns :
        (pc[c] = "sent" /\ Unknown(c)) => EndsWithOneTerminator(body[c])

\* C5: a request that strips to "" and a request that strips to "/" both
\* look up the key "" and get the same bytes, the root menu.
C5_RootNormalization ==
    \A c, d \in Conns :
        (/\ pc[c] = "sent" /\ pc[d] = "sent"
         /\ strip(decode(data[c])) = "" /\ strip(decode(data[d])) = "/") =>
            /\ SelectorOf(data[c]) = "" /\ SelectorOf(data[d]) = ""
            /\ out[c] = out[d]
            /\ body[d] = Terminate(format(PAGES[""], server_address[1], server_address[2]).text)

C5_Witness ==
    \E c, d \in Conns :
        /\ pc[c] = "sent" /\ pc[d] = "sent"
        /\ strip(decode(data[c])) = "" /\ strip(decode(data[d])) = "/"

\* C6: a step in which the read, the processing or the write of one
\* connection fails leaves the accept loop serving and changes neither the
\* page map nor anything of any other connection, whose handler goes on
\* from where it was.
C6_FailureIsolated ==
    [][\A c \in Conns :
          (pc[c] # "failed" /\ pc'[c] = "failed") =>
              /\ serving'
              /\ pages' = pages
              /\ \A d \in Conns \ {c} : ConnState(d)' = ConnState(d)]_vars

C6_Witness ==
    \E c, d \in Conns :
        /\ c # d
        /\ pc[c] = "failed" /\ err[c] = "handle"
        /\ pc[d] = "sent"
        /\ serving

\* C7: whatever the interleaving, the bytes a connection has received are a
\* prefix of the body the code computes for its own request, the whole of it
\* once sendall has returned; and the next step of a connection (accept,
\* recv once its request has arrived, processing, sendall) can be taken
\* whatever the other connections are doing, also when their clients never
\* write.
C7_OwnBodyUnblocked ==
    \A c \in Conns :
        /\ (pc[c] = "sent" \/ out[c] # "") =>
              Let(OwnResponse(c), LAMBDA r :
                  /\ ~r.raised
                  /\ Let(encode(r.text), LAMBDA bytes :
                         IF pc[c] = "sent" THEN out[c] = bytes ELSE IsPrefix(out[c], bytes)))
        /\ (pc[c] = "failed" /\ err[c] = "handle") => OwnResponse(c).raised
        /\ pc[c] = "queued" => ENABLED Accept(c)
        /\ (pc[c] = "accepted" /\ arrived[c]) => ENABLED Recv(c)
        /\ pc[c] = "recvd" => ENABLED Process(c)
        /\ pc[c] = "sending" => ENABLED Send(c)

C7_Witness ==
    \E c, d \in Conns :
        /\ c # d
        /\ pc[d] = "accepted" /\ ~arrived[d]
        /\ pc[c] = "sent" /\ out[c] # ""

\* C8: in the body sent for a menu page no "{host}" or "{port}" is left, and
\* every line before the terminator is <type><display> TAB <selector> TAB
\* <host> TAB <port> with the host and port the server is bound to.
C8_PlaceholdersSubstituted ==
    \A c \in Conns :
        (pc[c] = "sent" /\ SelectorOf(data[c]) \in MenuSelectors) =>
            LET lines == BodyLines(body[c])
            IN  /\ ~Contains(body[c], "{host}")
                /\ ~Contains(body[c], "{port}")
                /\ Len(lines) >= 2
                /\ lines[Len(lines)] = "."
                /\ \A i \in 1..(Len(lines) - 1) :
                      LET f == split(lines[i], TAB)
                      IN  /\ Len(f) = 4
                          /\ Len(f[1]) >= 1
                          /\ Char(f[1], 1) \in {"i", "0", "1"}
                          /\ f[3] = server_address[1]
                          /\ f[4] = str(server_address[2])

C8_Witness ==
    \E c \in Conns :
        /\ pc[c] = "sent"
        /\ SelectorOf(data[c]) = "/tutorial"
        /\ server_address = <<"127.0.0.1", 7070>>

\* C9: the page map always equals its startup value, and two connections
\* that received the same request bytes were sent the same bytes.
C9_StoreUnchangedSameBody ==
    /\ pages = PAGES
    /\ \A c, d \in Conns :
          (pc[c] = "sent" /\ pc[d] = "sent" /\ data[c] = data[d]) => out[c] = out[d]

C9_Witness ==
    \E c, d \in Conns :
        /\ c # d
        /\ pc[c] = "sent" /\ pc[d] = "sent"
        /\ data[c] = data[d]
        /\ Unknown(c)

\* C10: a client that follows a menu line of type "1" or "0" is sent a page,
\* not the not-found body: a menu for type "1", a text page for type "0".
C10_ItemTypeMatchesPage ==
    \A c \in Conns :
        (pc[c] = "sent" /\ link[c] # NoLink) =>
            /\ ~IsNotFoundBody(body[c])
            /\ link[c].item_type = "1" => IsMenuBody(body[c])
            /\ link[c].item_type = "0" => ~IsMenuBody(body[c])
====
